---- MODULE Spec2Model ----
(***************************************************************************)
(* Model of the volume acquisition pipeline of MangaReaderScraper:         *)
(*   scraper/parsers/base.py  BaseMangaParser.page_data   (page fetcher)   *)
(*   scraper/manga.py         Volume, Manga, MangaBuilder (acquirer and    *)
(*                            assembler)                                   *)
(* Spec:       one call of MangaBuilder._get_volume_data at a time; inside *)
(*             it the page_data calls of the ThreadPool interleave request *)
(*             by request.                                                 *)
(* SpecRun:    get_manga_volumes and the tasks of its process pool, each   *)
(*             task in two steps; SpecRunDup: the same with a catalog that *)
(*             may repeat page indices.                                    *)
(* SpecVolume, SpecAggr, SpecSort, SpecName, SpecCbz: the aggregates, the  *)
(*             name resolution and the save methods called directly.       *)
(* SpecDownload: scraper/download.py, Download.download_volumes.           *)
(* SpecTmp:    _to_cbz running in two worker processes at once.            *)
(* SpecParser: the manga parsers of scraper/parsers against a site.        *)
(* SpecBundle: scraper/bundle.py, Bundle.bundle and create_volume.         *)
(* SpecCli:    scraper/__main__.py, cli.                                   *)
(***************************************************************************)
EXTENDS Integers, Sequences, FiniteSets, TLC

\* ------------------------------------------------------------------ bounds
\* largest number of page locators the catalog holds for the work, all
\* volumes together
MaxPages == 2

\* ----------------------------------------------------------- program data
\* `while attempt < 5` / `if attempt == 5` of page_data
MaxAttempts == 5

\* the volume ids of the work
Vols == {"1", "2"}

\* conversion_method of _get_save_method
FileTypes == {"pdf", "cbz"}

\* settings()["config"]["manga_directory"] and the sanitized manga name
MangaDir == "root"
MangaName == "X"

\* b"" : the empty-bytes sentinel
EmptyBytes == <<>>

\* bytes that PIL cannot decode
CorruptBytes == <<"corrupt">>

\* page_urls raising VolumeDoesntExist
VolumeDoesntExist == [raises |-> TRUE, n |-> 0]

\* an empty dict / an empty directory
EmptyMap == <<>>

\* status codes a response may carry
StatusCodes == {200, 404, 500}

\* the decimal digits
Digits == <<"0", "1", "2", "3", "4", "5", "6", "7", "8", "9">>

\* ---------------------------------------------------------------- helpers
Range(s) == {s[i] : i \in 1..Len(s)}

RECURSIVE SeqSum(_)
SeqSum(s) == IF s = <<>> THEN 0 ELSE Head(s) + SeqSum(Tail(s))

\* the body of a response that is not an image (an error page)
ErrorBody == <<"corrupt">>

\* the image the site serves at a locator
ImageAt(url) == <<"img">> \o url

\* mutant of the image check: nothing is verified
DecodesAlways(bytes) == TRUE

\* Image.open / verify / load succeed
Decodes(bytes) == bytes # EmptyBytes /\ bytes # CorruptBytes

\* enumerate(all_page_urls, start=1) of a volume with n images
PageUrls(v, n) == [i \in 1..n |-> <<i, <<v, i>>>>]

\* Manga._volume_path
VolumePath(name, v, filetype) == <<MangaDir, name, name, "_chapter_", v, filetype>>

\* ------------------------------------------------------------------ state
VARIABLES
    catalog,     \* what page_urls answers per volume: a page count or VolumeDoesntExist
    filetype,    \* MangaBuilder.type
    disk,        \* the files under the manga directory, by path
    pc,          \* position of the running _get_volume_data call
    cur,         \* its volume_number
    urls,        \* its urls
    attempt,     \* page_data: attempt, per locator
    nreq,        \* requests.get calls issued, per locator
    fres,        \* page_data: "pending", "ret" (returned) or "exc" (raised), per locator
    fval,        \* page_data: the tuple returned, per locator
    req,         \* page_data: req, the latest response, per locator
    volumes_dict,\* Manga._volumes of the process running the call
    log,         \* error-level log records of the running call
    catCalls,    \* page_urls calls of the running call
    outcome,     \* how the running call ends
    hist,        \* per volume: "none" while no call for it has finished, "wrote"
                 \* once a finished call wrote its container, else "nowrite"
    vol_nums,    \* get_manga_volumes: vol_nums once resolved
    opc,         \* position of the get_manga_volumes call
    tasks,       \* the tasks pool.imap made of vol_nums, in order
    nres,        \* results the parent has taken from the imap iterator
    op,          \* the latest call made on an aggregate or on the assembler
    names,       \* get_manga_volumes: the name arguments and the name resolved
    volumes_order, \* keys of Manga._volumes in insertion order, where
                 \* Manga.volumes is read
    dl,          \* the Download object and the position of its download_volumes call
    cli,         \* the arguments and the position of a cli run
    tmpdir,      \* the files in tempfile.gettempdir(), by name
    asm,         \* the _to_cbz calls running in different processes
    bundles,     \* the Bundle: chapter and bundle files with their mtimes
    site         \* the latest call of a parser method and the answer of the site

vars == <<catalog, filetype, disk, pc, cur, urls, attempt, nreq, fres, fval, req,
          volumes_dict, log, catCalls, outcome, hist,
          vol_nums, opc, tasks, nres, op, names, volumes_order,
          dl, cli, tmpdir, asm, bundles, site>>

\* the state of the callers and helpers around the builder
auxvars == <<dl, cli, tmpdir, asm, bundles, site>>

\* the state of get_manga_volumes and of its pool
orchvars == <<vol_nums, opc, tasks, nres>>

\* the state of one _get_volume_data call
callvars == <<pc, cur, urls, attempt, nreq, fres, fval, req, log, catCalls,
              outcome, hist>>

\* ------------------------------------------------------- Volume and Manga
\* Volume.add_page: the dict as the sequence of its items in insertion order
HasPage(pages, n) == \E k \in 1..Len(pages) : pages[k].number = n

\* mutant of add_page: the page held under the number is replaced
AddPageOverwrite(pages, n, img) ==
    IF HasPage(pages, n)
    THEN [raised |-> FALSE,
          pages |-> [k \in 1..Len(pages) |->
                        IF pages[k].number = n THEN [number |-> n, img |-> img]
                        ELSE pages[k]]]
    ELSE [raised |-> FALSE, pages |-> Append(pages, [number |-> n, img |-> img])]

AddPage(pages, n, img) ==
    IF HasPage(pages, n)
    THEN [raised |-> TRUE, pages |-> pages]
    ELSE [raised |-> FALSE, pages |-> Append(pages, [number |-> n, img |-> img])]

\* Volume.pages setter: self._pages = {} then add_page for each item
RECURSIVE SetPagesFrom(_, _)
SetPagesFrom(acc, metadata) ==
    IF metadata = <<>> THEN [raised |-> FALSE, pages |-> acc]
    ELSE LET r == AddPage(acc, Head(metadata)[1], Head(metadata)[2])
         IN IF r.raised THEN r ELSE SetPagesFrom(r.pages, Tail(metadata))

SetPages(metadata) == SetPagesFrom(<<>>, metadata)

\* sorted(pages, key=lambda x: x.number): stable insertion sort
RECURSIVE InsertSorted(_, _)
InsertSorted(sorted, p) ==
    IF sorted = <<>> THEN <<p>>
    ELSE IF p.number < Head(sorted).number THEN <<p>> \o sorted
    ELSE <<Head(sorted)>> \o InsertSorted(Tail(sorted), p)

\* mutant of sorted(): the pages in insertion order
SortPagesUnsorted(pages) == pages

RECURSIVE SortPages(_)
SortPages(pages) ==
    IF pages = <<>> THEN <<>>
    ELSE InsertSorted(SortPages(SubSeq(pages, 1, Len(pages) - 1)), pages[Len(pages)])

\* Volume.pages getter
VolumePages(volume) == SortPages(volume.pages)

\* dict[key] = value
Put(map, key, value) ==
    [k \in DOMAIN map \cup {key} |-> IF k = key THEN value ELSE map[k]]

\* mutants of volume_exists: the check is lost / looks at the pdf path only
VolumeExistsNever(d, v, ft) == FALSE

VolumeExistsPdfOnly(d, v, ft) == VolumePath(MangaName, v, "pdf") \in DOMAIN d

\* mutant of volume_exists: a file with fewer entries than the catalog has
\* locators does not count
VolumeExistsComplete(d, v, ft) ==
    /\ VolumePath(MangaName, v, ft) \in DOMAIN d
    /\ Len(d[VolumePath(MangaName, v, ft)].entries) >= catalog[v].n

\* Manga.volume_exists
VolumeExists(d, v, ft) == VolumePath(MangaName, v, ft) \in DOMAIN d

\* Manga.add_volume of the Manga called name
AddVolumeNamed(vd, name, v, ft) ==
    IF v \in DOMAIN vd
    THEN [raised |-> TRUE, volumes |-> vd]
    ELSE [raised |-> FALSE,
          volumes |-> Put(vd, v, [number |-> v,
                                  file_path |-> VolumePath(name, v, ft),
                                  pages |-> <<>>])]

\* Manga.add_volume
AddVolume(vd, v, ft) == AddVolumeNamed(vd, MangaName, v, ft)

\* -------------------------------------------------------------- assembler
\* mutant of _to_pdf: no emptiness guard
ToPdfUnguarded(d, volume) ==
    Put(d, volume.file_path,
        [kind |-> "pdf",
         entries |-> [k \in 1..Len(VolumePages(volume)) |->
                        [number |-> VolumePages(volume)[k].number,
                         img |-> VolumePages(volume)[k].img]]])

\* MangaBuilder._to_pdf: one document page per image, in volume.pages order
ToPdf(d, volume) ==
    IF VolumePages(volume) = <<>> THEN d
    ELSE Put(d, volume.file_path,
            [kind |-> "pdf",
             entries |-> [k \in 1..Len(VolumePages(volume)) |->
                            [number |-> VolumePages(volume)[k].number,
                             img |-> VolumePages(volume)[k].img]]])

\* str(n) of a number n >= 0
RECURSIVE Decimal(_)
Decimal(n) ==
    IF n < 10 THEN Digits[n + 1]
    ELSE Decimal(n \div 10) \o Digits[(n % 10) + 1]

\* the format spec 0<width>d: zeros on the left up to the width
RECURSIVE ZeroPad(_, _)
ZeroPad(str, width) ==
    IF Len(str) >= width THEN str ELSE ZeroPad("0" \o str, width)

\* mutant of jpgfilename: the page number is not padded
EntryNameUnpadded(page_number, volume_number) ==
    Decimal(page_number) \o "_" \o volume_number \o ".jpg"

\* jpgfilename = f"{page.number:03d}_{volume.number}.jpg"
EntryName(page_number, volume_number) ==
    ZeroPad(Decimal(page_number), 3) \o "_" \o volume_number \o ".jpg"

\* mutant of _to_cbz: the emptiness guard inverted
ToCbzInverted(d, volume) ==
    IF VolumePages(volume) # <<>> THEN d
    ELSE Put(d, volume.file_path, [kind |-> "cbz", entries |-> <<>>])

\* MangaBuilder._to_cbz: one archive entry per image, in volume.pages order
ToCbz(d, volume) ==
    IF VolumePages(volume) = <<>> THEN d
    ELSE Put(d, volume.file_path,
            [kind |-> "cbz",
             entries |-> [k \in 1..Len(VolumePages(volume)) |->
                            [number |-> VolumePages(volume)[k].number,
                             volume |-> volume.number,
                             name |-> EntryName(VolumePages(volume)[k].number,
                                                volume.number),
                             img |-> VolumePages(volume)[k].img]]])

\* _get_save_method(filetype)(volume)
SaveVolume(d, volume, ft) ==
    IF ft = "pdf" THEN ToPdf(d, volume)
    ELSE IF ft = "cbz" THEN ToCbz(d, volume)
    ELSE d

\* ------------------------------------------------------------------- Init
RECURSIVE TotalPagesOf(_, _)
TotalPagesOf(cat, vs) ==
    IF vs = {} THEN 0
    ELSE LET v == CHOOSE w \in vs : TRUE
         IN cat[v].n + TotalPagesOf(cat, vs \ {v})

TotalPages(cat) == TotalPagesOf(cat, Vols)

NoThreads == <<>>

\* page_data has not returned / has not received a response yet
NoResult == <<0, EmptyBytes>>
NoResponse == [kind |-> "none", status |-> 0, content |-> EmptyBytes]

\* no call on an aggregate yet / get_manga_volumes not called yet
NoOp == [name |-> "none", v |-> "none", n |-> 0, img |-> EmptyBytes,
         raised |-> FALSE]
NoNames == [preferred_name |-> <<>>, title |-> <<>>, manga_url |-> <<>>,
            name |-> <<>>]

\* no Download object, no cli run, no Bundle, no parser call yet
NoDownload == [pc |-> "idle"]
NoCli == [pc |-> "idle", upload |-> "none", remove |-> FALSE, bundle |-> 0,
          search |-> FALSE, retries |-> 0, events |-> <<>>, files |-> <<>>,
          left |-> <<>>]

\* two worker processes, and a process that is not in _to_cbz
AsmProcs == {"p", "q"}
NoAsm == [step |-> "idle"]
NoBundle == [pc |-> "idle"]
NoSite == <<>>

Init ==
    /\ catalog \in [Vols -> {[raises |-> FALSE, n |-> k] : k \in 0..MaxPages}
                            \cup {VolumeDoesntExist}]
    /\ TotalPages(catalog) <= MaxPages
    /\ filetype \in FileTypes
    /\ disk = EmptyMap
    /\ pc = "idle"
    /\ cur = "none"
    /\ urls = <<>>
    /\ attempt = NoThreads
    /\ nreq = NoThreads
    /\ fres = NoThreads
    /\ fval = NoThreads
    /\ req = NoThreads
    /\ volumes_dict = EmptyMap
    /\ log = {}
    /\ catCalls = 0
    /\ outcome = "none"
    /\ hist = [v \in Vols |-> "none"]
    /\ vol_nums = <<>>
    /\ opc = "idle"
    /\ tasks = <<>>
    /\ nres = 0
    /\ op = NoOp
    /\ names = NoNames
    /\ volumes_order = <<>>
    /\ dl = NoDownload
    /\ cli = NoCli
    /\ tmpdir = EmptyMap
    /\ asm = [p \in AsmProcs |-> NoAsm]
    /\ bundles = NoBundle
    /\ site = NoSite

\* ------------------------------------------------------- _get_volume_data
\* lines 237-250: existence check, page_urls, start of pool.map.
\* The call runs on the copy of the builder that the process pool hands to
\* the task, whose Manga holds no volume yet.
Call(v) ==
    /\ pc = "idle"
    /\ UNCHANGED auxvars
    /\ UNCHANGED <<orchvars, op, names, volumes_order>>
    /\ cur' = v
    /\ volumes_dict' = EmptyMap
    /\ UNCHANGED <<catalog, filetype, disk, hist>>
    /\ IF VolumeExists(disk, v, filetype)
       THEN /\ pc' = "returned"
            /\ outcome' = "skipped"
            /\ catCalls' = 0
            /\ log' = {}
            /\ urls' = <<>>
            /\ attempt' = NoThreads /\ nreq' = NoThreads
            /\ fres' = NoThreads /\ fval' = NoThreads /\ req' = NoThreads
       ELSE /\ catCalls' = 1
            /\ IF catalog[v].raises
               THEN /\ pc' = "returned"
                    /\ outcome' = "noexist"
                    /\ log' = {<<"VolumeDoesntExist", v>>}
                    /\ urls' = <<>>
                    /\ attempt' = NoThreads /\ nreq' = NoThreads
                    /\ fres' = NoThreads /\ fval' = NoThreads /\ req' = NoThreads
               ELSE /\ urls' = PageUrls(v, catalog[v].n)
                    /\ log' = {}
                    /\ attempt' = [i \in 1..catalog[v].n |-> 0]
                    /\ nreq' = [i \in 1..catalog[v].n |-> 0]
                    /\ fres' = [i \in 1..catalog[v].n |-> "pending"]
                    /\ fval' = [i \in 1..catalog[v].n |-> NoResult]
                    /\ req' = [i \in 1..catalog[v].n |-> NoResponse]
                    /\ IF catalog[v].n = 0
                       THEN pc' = "returned" /\ outcome' = "nolocators"
                       ELSE pc' = "fetching" /\ outcome' = "none"

\* --------------------------------------------------------------- page_data
\* what requests.get(img_url) may produce: a response, or an exception
\* (requests.get is called without timeout and outside any try block)
Responses(url) ==
    {[kind |-> "response", status |-> 200, content |-> c] :
        c \in {ImageAt(url), CorruptBytes}}
    \cup {[kind |-> "response", status |-> st, content |-> ErrorBody] :
            st \in StatusCodes \ {200}}
    \cup {[kind |-> "exception", status |-> 0, content |-> EmptyBytes]}

\* `if req.status_code == 200: break`
IsSuccess(status) == status = 200

\* mutant of the loop condition: `while attempt <= 5`
LoopContinuesOneMore(a) == a <= MaxAttempts

\* `while attempt < 5`
LoopContinues(a) == a < MaxAttempts

\* mutant of the give-up test: `if attempt >= 4`
GaveUpEarly(a) == a >= MaxAttempts - 1

\* `if attempt == 5`
GaveUp(a) == a = MaxAttempts

\* one requests.get of the page_data call of locator i and, when the loop
\* ends with it, the rest of page_data (lines 51-69)
Request(i) ==
    /\ pc = "fetching"
    /\ UNCHANGED auxvars
    /\ UNCHANGED <<orchvars, op, names, volumes_order>>
    /\ i \in DOMAIN fres
    /\ fres[i] = "pending"
    /\ \E resp \in Responses(urls[i][2]) :
        /\ nreq' = [nreq EXCEPT ![i] = @ + 1]
        /\ IF resp.kind = "exception"
           THEN /\ fres' = [fres EXCEPT ![i] = "exc"]
                /\ UNCHANGED <<attempt, fval, req, log>>
           ELSE LET a2 == IF IsSuccess(resp.status) THEN attempt[i] ELSE attempt[i] + 1
                    exits == IsSuccess(resp.status) \/ ~LoopContinues(a2)
                IN /\ attempt' = [attempt EXCEPT ![i] = a2]
                   /\ req' = [req EXCEPT ![i] = resp]
                   /\ IF ~exits
                      THEN UNCHANGED <<fres, fval, log>>
                      ELSE /\ fres' = [fres EXCEPT ![i] = "ret"]
                           /\ IF GaveUp(a2)
                              THEN /\ log' = log \cup {<<"Download FAILED page", urls[i][1]>>}
                                   /\ fval' = [fval EXCEPT ![i] = <<urls[i][1], EmptyBytes>>]
                              ELSE IF Decodes(resp.content)
                              THEN /\ fval' = [fval EXCEPT ![i] = <<urls[i][1], resp.content>>]
                                   /\ log' = log
                              ELSE /\ log' = log \cup {<<"Image file corrupted", urls[i][1]>>}
                                   /\ fval' = [fval EXCEPT ![i] = <<urls[i][1], EmptyBytes>>]
    /\ UNCHANGED <<catalog, filetype, disk, pc, cur, urls, volumes_dict,
                   catCalls, outcome, hist>>

\* ------------------------------------------- _get_volume_data, lines 250-278
\* mutant of pool.map: results are taken as soon as one call has ended
AnyReturned(results) == \E i \in DOMAIN results : results[i] # "pending"

\* pool.map hands back its results once every page_data call has ended
AllReturned(results) == \A i \in DOMAIN results : results[i] # "pending"

\* mutant of the filter: the empty pages stay in the list
KeptPagesAll(pages_data) == pages_data

\* [page for page in pages_data if page[1]]
KeptPages(pages_data) == SelectSeq(pages_data, LAMBDA p : p[2] # EmptyBytes)

\* mutant of missing_pages: no page is ever reported
MissingPagesNone(pages_data) == <<>>

\* [str(page[0]) for page in pages_data if not page[1]]
MissingPages(pages_data) ==
    LET m == SelectSeq(pages_data, LAMBDA p : p[2] = EmptyBytes)
    IN [k \in 1..Len(m) |-> m[k][1]]

MapDone ==
    /\ pc = "fetching"
    /\ UNCHANGED auxvars
    /\ UNCHANGED <<orchvars, op, names, volumes_order>>
    /\ AllReturned(fres)
    /\ UNCHANGED <<catalog, filetype, disk, cur, urls, attempt, nreq, fres, fval,
                   req, catCalls, hist>>
    /\ IF \E i \in DOMAIN fres : fres[i] = "exc"
       THEN \* pool.map re-raises the exception of the page_data call
            /\ pc' = "returned"
            /\ outcome' = "raised"
            /\ UNCHANGED <<volumes_dict, log>>
       ELSE LET pages_data == fval
                volume_complete == MissingPages(pages_data) = <<>>
                kept == KeptPages(pages_data)
                av == AddVolume(volumes_dict, cur, filetype)
                sp == SetPages(kept)
            IN IF pages_data = <<>>
               THEN /\ log' = log \cup {<<"No data for volume", cur>>}
                    /\ pc' = "returned"
                    /\ outcome' = "nodata"
                    /\ UNCHANGED volumes_dict
               ELSE /\ log' = (IF volume_complete THEN log
                               ELSE log \cup {<<"missing pages", cur,
                                                MissingPages(pages_data)>>})
                           \cup (IF av.raised THEN {<<"VolumeAlreadyPresent", cur>>}
                                 ELSE {})
                    /\ volumes_dict' =
                         IF av.raised THEN volumes_dict
                         ELSE [av.volumes EXCEPT ![cur].pages = sp.pages]
                    /\ IF ~av.raised /\ sp.raised
                       THEN \* PageAlreadyPresent is not caught
                            pc' = "returned" /\ outcome' = "raised"
                       ELSE /\ pc' = "saving"
                            /\ outcome' = IF volume_complete THEN "done"
                                          ELSE "incomplete"

\* lines 280-289: _create_manga_dir, save_method, return
Save ==
    /\ pc = "saving"
    /\ UNCHANGED auxvars
    /\ UNCHANGED <<orchvars, op, names, volumes_order>>
    /\ disk' = SaveVolume(disk, volumes_dict[cur], filetype)
    /\ pc' = "returned"
    /\ UNCHANGED <<catalog, filetype, cur, urls, attempt, nreq, fres, fval, req,
                   volumes_dict, log, catCalls, outcome, hist>>

\* the call has returned (or raised) to its caller; the task's copy of the
\* builder is dropped
Return ==
    /\ pc = "returned"
    /\ UNCHANGED auxvars
    /\ UNCHANGED <<orchvars, op, names, volumes_order>>
    /\ pc' = "idle"
    /\ hist' = [hist EXCEPT ![cur] =
                    IF VolumePath(MangaName, cur, filetype) \in DOMAIN disk
                    THEN "wrote" ELSE "nowrite"]
    /\ cur' = "none"
    /\ urls' = <<>>
    /\ attempt' = NoThreads /\ nreq' = NoThreads
    /\ fres' = NoThreads /\ fval' = NoThreads /\ req' = NoThreads
    /\ volumes_dict' = EmptyMap
    /\ log' = {}
    /\ catCalls' = 0
    /\ outcome' = "none"
    /\ UNCHANGED <<catalog, filetype, disk>>

Next ==
    \/ \E v \in Vols : Call(v)
    \/ \E i \in 1..MaxPages : Request(i)
    \/ MapDone
    \/ Save
    \/ Return

Spec == Init /\ [][Next]_vars

\* ------------------------------------------- the data model used directly
\* Manga.add_volume, Volume.add_page and the save method called on the
\* aggregates themselves, in any order
PageNumbers == 1..MaxPages

\* the state before any call, for a work whose catalog plays no part
InitData ==
    /\ Init
    /\ catalog = [v \in Vols |-> [raises |-> FALSE, n |-> 0]]

\* Manga(name, filetype): a new Manga object, as get_manga_volumes makes one
NewManga ==
    /\ pc = "idle"
    /\ UNCHANGED auxvars
    /\ volumes_dict # EmptyMap
    /\ volumes_dict' = EmptyMap
    /\ op' = [NoOp EXCEPT !.name = "Manga"]
    /\ UNCHANGED <<catalog, filetype, disk, callvars, orchvars, names,
                   volumes_order>>

MangaAddVolume(v) ==
    /\ pc = "idle"
    /\ UNCHANGED auxvars
    /\ volumes_dict' = AddVolume(volumes_dict, v, filetype).volumes
    /\ op' = [NoOp EXCEPT !.name = "add_volume", !.v = v,
                          !.raised = AddVolume(volumes_dict, v, filetype).raised]
    /\ UNCHANGED <<catalog, filetype, disk, callvars, orchvars, names,
                   volumes_order>>

VolumeAddPage(v, n, img) ==
    /\ pc = "idle"
    /\ UNCHANGED auxvars
    /\ v \in DOMAIN volumes_dict
    /\ volumes_dict' = [volumes_dict EXCEPT ![v].pages = AddPage(@, n, img).pages]
    /\ op' = [name |-> "add_page", v |-> v, n |-> n, img |-> img,
              raised |-> AddPage(volumes_dict[v].pages, n, img).raised]
    /\ UNCHANGED <<catalog, filetype, disk, callvars, orchvars, names,
                   volumes_order>>

AssembleVolume(v) ==
    /\ pc = "idle"
    /\ UNCHANGED auxvars
    /\ v \in DOMAIN volumes_dict
    /\ disk' = SaveVolume(disk, volumes_dict[v], filetype)
    /\ op' = [NoOp EXCEPT !.name = "save", !.v = v]
    /\ UNCHANGED <<catalog, filetype, volumes_dict, callvars, orchvars, names,
                   volumes_order>>

NextVolume ==
    \/ NewManga
    \/ \E v \in Vols : MangaAddVolume(v)
    \/ \E v \in Vols, n \in PageNumbers : VolumeAddPage(v, n, ImageAt(<<v, n>>))
    \/ \E v \in Vols : AssembleVolume(v)

SpecVolume == InitData /\ [][NextVolume]_vars

\* the images a caller may hand to add_page under one page number
PageImages(v, n) == {ImageAt(<<v, n>>), ImageAt(<<v, n, "again">>)}

NextAggr ==
    \/ \E v \in Vols : MangaAddVolume(v)
    \/ \E v \in Vols, n \in PageNumbers :
          \E img \in PageImages(v, n) : VolumeAddPage(v, n, img)

SpecAggr == InitData /\ [][NextAggr]_vars

\* ----------------------------------------------- the archive of a volume
\* names of works, volume ids and page numbers of the volumes assembled
WorkNames == {MangaName, "Dragon Ball"}
CbzIds == {"12", "10.5"}
CbzNumbers == {1, 2, 12, 1000}

\* the pages of a volume, as the numbers in the order of their insertion
PageLists ==
    {l \in UNION {[1..k -> CbzNumbers] : k \in 0..Cardinality(CbzNumbers)} :
        \A i, j \in DOMAIN l : i # j => l[i] # l[j]}

\* a Volume of a Manga called name is filled with pages and saved with
\* _get_save_method(filetype), the manga directory being empty
AssembleNew(name, id, numbers) ==
    /\ pc = "idle"
    /\ UNCHANGED auxvars
    /\ LET av == AddVolumeNamed(EmptyMap, name, id, filetype)
           sp == SetPages([k \in DOMAIN numbers |->
                             <<numbers[k], ImageAt(<<id, numbers[k]>>)>>])
           volume == [av.volumes[id] EXCEPT !.pages = sp.pages]
       IN /\ volumes_dict' = Put(EmptyMap, id, volume)
          /\ disk' = SaveVolume(EmptyMap, volume, filetype)
    /\ names' = [NoNames EXCEPT !.name = name]
    /\ op' = [NoOp EXCEPT !.name = "save", !.v = id]
    /\ UNCHANGED <<catalog, filetype, callvars, orchvars, volumes_order>>

NextCbz ==
    \E name \in WorkNames, id \in CbzIds, numbers \in PageLists :
        AssembleNew(name, id, numbers)

SpecCbz == InitData /\ [][NextCbz]_vars

\* ------------------------------------------------------------ natural_sort
\* largest number of volumes added to the Manga whose volumes are read
MaxVolumes == 3

\* volume ids, a string being the sequence of its characters
SortIds ==
    {<<"1">>, <<"2">>, <<"0", "2">>, <<"9">>, <<"1", "0">>,
     <<"1", "0", ".", "5">>, <<"a", "2">>, <<"B", "1">>}

\* [0-9] and int() of one digit
IsDigit(c) == \E d \in 1..10 : Digits[d] = c
DigitValue(c) == (CHOOSE d \in 1..10 : Digits[d] = c) - 1

\* the characters of the ids in code point order, and str.lower()
CodePoints == <<".", "0", "1", "2", "3", "4", "5", "6", "7", "8", "9",
                "B", "a", "b">>
Ord(c) == CHOOSE k \in 1..Len(CodePoints) : CodePoints[k] = c
Lower(c) == IF c = "B" THEN "b" ELSE c

\* int(text) of a run of digits
RECURSIVE IntOf(_)
IntOf(text) ==
    IF text = <<>> THEN 0
    ELSE 10 * IntOf(SubSeq(text, 1, Len(text) - 1)) + DigitValue(text[Len(text)])

\* re.split("([0-9]+)", s): text, digits, text, ..., text; the texts at both
\* ends and between two runs may be empty
RECURSIVE SplitFrom(_, _, _, _)
SplitFrom(s, done, text, digits) ==
    IF s = <<>>
    THEN IF digits # <<>> THEN done \o <<text, digits, <<>>>>
         ELSE done \o <<text>>
    ELSE IF IsDigit(Head(s))
    THEN SplitFrom(Tail(s), done, text, Append(digits, Head(s)))
    ELSE IF digits # <<>>
    THEN SplitFrom(Tail(s), done \o <<text, digits>>, <<Head(s)>>, <<>>)
    ELSE SplitFrom(Tail(s), done, Append(text, Head(s)), <<>>)

Split(s) == SplitFrom(s, <<>>, <<>>, <<>>)

\* text.isdigit()
IsDigitText(text) == text # <<>> /\ \A k \in 1..Len(text) : IsDigit(text[k])

\* mutant of convert_text: a run of digits stays a text
ConvertTextNoInt(text) ==
    [isint |-> FALSE, n |-> 0, text |-> [k \in 1..Len(text) |-> Lower(text[k])]]

\* convert_text: int(text) if text.isdigit() else text.lower()
ConvertText(text) ==
    IF IsDigitText(text) THEN [isint |-> TRUE, n |-> IntOf(text), text |-> <<>>]
    ELSE [isint |-> FALSE, n |-> 0, text |-> [k \in 1..Len(text) |-> Lower(text[k])]]

\* the sort key of a volume id
AlphanumKey(id) == [k \in 1..Len(Split(id)) |-> ConvertText(Split(id)[k])]

\* str < str
RECURSIVE TextLess(_, _)
TextLess(a, b) ==
    IF b = <<>> THEN FALSE
    ELSE IF a = <<>> THEN TRUE
    ELSE IF Head(a) = Head(b) THEN TextLess(Tail(a), Tail(b))
    ELSE Ord(Head(a)) < Ord(Head(b))

\* the elements of two keys at one position: int < int or str < str (the
\* keys alternate texts and ints from a text on, so the kinds agree)
ElemLess(x, y) ==
    IF x.isint /\ y.isint THEN x.n < y.n
    ELSE IF ~x.isint /\ ~y.isint THEN TextLess(x.text, y.text)
    ELSE FALSE

\* list < list
RECURSIVE KeyLess(_, _)
KeyLess(a, b) ==
    IF b = <<>> THEN FALSE
    ELSE IF a = <<>> THEN TRUE
    ELSE IF Head(a) = Head(b) THEN KeyLess(Tail(a), Tail(b))
    ELSE ElemLess(Head(a), Head(b))

\* sorted(_list, key=sort_key): stable
RECURSIVE InsertByKey(_, _)
InsertByKey(sorted, volume) ==
    IF sorted = <<>> THEN <<volume>>
    ELSE IF KeyLess(AlphanumKey(volume.number), AlphanumKey(Head(sorted).number))
    THEN <<volume>> \o sorted
    ELSE <<Head(sorted)>> \o InsertByKey(Tail(sorted), volume)

RECURSIVE NaturalSort(_)
NaturalSort(list) ==
    IF list = <<>> THEN <<>>
    ELSE InsertByKey(NaturalSort(SubSeq(list, 1, Len(list) - 1)), list[Len(list)])

\* Manga.volumes getter: natural_sort(self.volumes_dict.values(), key=number)
MangaVolumes(vd, order) ==
    NaturalSort([k \in 1..Len(order) |-> vd[order[k]]])

\* add_volume on the Manga whose volumes are read
SortAddVolume(id) ==
    /\ pc = "idle"
    /\ UNCHANGED auxvars
    /\ Len(volumes_order) < MaxVolumes
    /\ volumes_dict' = AddVolume(volumes_dict, id, filetype).volumes
    /\ volumes_order' = IF AddVolume(volumes_dict, id, filetype).raised
                        THEN volumes_order ELSE Append(volumes_order, id)
    /\ op' = [NoOp EXCEPT !.name = "add_volume"]
    /\ UNCHANGED <<catalog, filetype, disk, callvars, orchvars, names>>

\* a read of Manga.volumes; op.v takes the numbers of the list read
ReadVolumes ==
    /\ pc = "idle"
    /\ UNCHANGED auxvars
    /\ op' = [NoOp EXCEPT
                !.name = "volumes",
                !.v = [k \in 1..Len(volumes_order) |->
                         MangaVolumes(volumes_dict, volumes_order)[k].number]]
    /\ UNCHANGED <<catalog, filetype, disk, volumes_dict, callvars, orchvars,
                   names, volumes_order>>

NextSort ==
    \/ \E id \in SortIds : SortAddVolume(id)
    \/ ReadVolumes

SpecSort == InitData /\ [][NextSort]_vars

\* -------------------------------------------------------- name resolution
\* the characters of a name: those of str.isalnum(), keepcharacters, others
AlnumChars == {"a", "B", "7", "p", "d", "f", "c", "b", "z"}
KeepCharacters == {" ", ".", "_", "-"}
OtherChars == {"/", ":", "?"}

\* c.isalnum()
IsAlnum(c) == c \in AlnumChars

\* str.rstrip(): the white space at the end is removed
RECURSIVE RStrip(_)
RStrip(str) ==
    IF str # <<>> /\ str[Len(str)] = " "
    THEN RStrip(SubSeq(str, 1, Len(str) - 1))
    ELSE str

\* sanitize_filename, a string being the sequence of its characters
SanitizeFilename(filename) ==
    RStrip(SelectSeq(filename, LAMBDA c : IsAlnum(c) \/ c \in KeepCharacters))

\* mutant of lines 379-385: the title is preferred
ResolveNameTitleFirst(preferred_name, title, manga_url) ==
    SanitizeFilename(IF title # <<>> THEN title
                     ELSE IF preferred_name # <<>> THEN preferred_name
                     ELSE manga_url)

\* lines 379-386; None and "" are both the empty sequence
ResolveName(preferred_name, title, manga_url) ==
    SanitizeFilename(IF preferred_name # <<>> THEN preferred_name
                     ELSE IF title # <<>> THEN title
                     ELSE manga_url)

\* names a caller passes as preferred_name and title, and manga urls
NameArgs ==
    {<<>>, <<"a", "/", "B">>, <<"7", " ", ":", " ">>, <<"_", "-", ".", "a">>,
     <<"?", "/">>, <<" ", "a", " ", "B">>}
UrlArgs == NameArgs \ {<<>>}

\* lines 379-391: the name is resolved and the Manga made
MakeManga(preferred_name, title, manga_url) ==
    /\ pc = "idle"
    /\ UNCHANGED auxvars
    /\ names' = [preferred_name |-> preferred_name, title |-> title,
                 manga_url |-> manga_url,
                 name |-> ResolveName(preferred_name, title, manga_url)]
    /\ volumes_dict' = EmptyMap
    /\ UNCHANGED <<catalog, filetype, disk, callvars, orchvars, op,
                   volumes_order>>

\* lines 402-404 for one id: add_volume on the Manga so named
NamedAddVolume(v) ==
    /\ pc = "idle"
    /\ UNCHANGED auxvars
    /\ names # NoNames
    /\ volumes_dict' = AddVolumeNamed(volumes_dict, names.name, v, filetype).volumes
    /\ UNCHANGED <<catalog, filetype, disk, callvars, orchvars, op, names,
                   volumes_order>>

NextName ==
    \/ \E preferred_name \in NameArgs, title \in NameArgs, manga_url \in UrlArgs :
          MakeManga(preferred_name, title, manga_url)
    \/ \E v \in Vols : NamedAddVolume(v)

SpecName == InitData /\ [][NextName]_vars

\* ------------------------------------------------------ get_manga_volumes
\* longest list of volume ids a caller asks for
MaxReq == 2

\* the vol_nums argument: None or an empty list, or ids in any order, an id
\* possibly more than once
Requests == UNION {[1..k -> Vols] : k \in 0..MaxReq}

\* all_volume_numbers(): the set of the ids the site lists, which the
\* caller iterates in some order
Enumerations ==
    {e \in [1..Cardinality(Vols) -> Vols] : Range(e) = Vols}

\* mutant of line 395: the filter put back
ToDispatchFiltered(ids, d, ft) ==
    SelectSeq(ids, LAMBDA v : VolumePath(MangaName, v, ft) \notin DOMAIN d)

\* lines 394-399: the filter on the ids saved to disk is commented out, so
\* _get_volumes_data receives the resolved list whole
ToDispatch(ids, d, ft) == ids

\* the states in which a task of the pool has ended
Terminal == {"skipped", "noexist", "nolocators", "done", "incomplete", "raised"}

\* mutant of the reconciliation test: negated
NotHeldNegated(vd, v) == v \in DOMAIN vd

\* `not self.manga.volumes_dict.get(volume)`
NotHeld(vd, v) == v \notin DOMAIN vd

\* lines 402-404 on the Manga called name: for volume in vol_nums: if not
\* held: add_volume(volume)
RECURSIVE ReconcileNamed(_, _, _, _)
ReconcileNamed(vd, name, ids, ft) ==
    IF ids = <<>> THEN [raised |-> FALSE, volumes |-> vd]
    ELSE IF NotHeld(vd, Head(ids))
    THEN LET av == AddVolumeNamed(vd, name, Head(ids), ft)
         IN IF av.raised THEN av
            ELSE ReconcileNamed(av.volumes, name, Tail(ids), ft)
    ELSE ReconcileNamed(vd, name, Tail(ids), ft)

\* lines 402-404
ReconcileVolumes(vd, ids, ft) == ReconcileNamed(vd, MangaName, ids, ft)

\* lines 390-399 and 302-304: a new Manga, the id list resolved, one task
\* per id handed to the pool
GetMangaVolumes(requested) ==
    /\ opc # "pool"
    /\ UNCHANGED auxvars
    /\ pc = "idle"
    /\ \E resolved \in (IF requested = <<>> THEN Enumerations ELSE {requested}) :
        /\ vol_nums' = resolved
        /\ tasks' = [k \in 1..Len(ToDispatch(resolved, disk, filetype)) |->
                        [id |-> ToDispatch(resolved, disk, filetype)[k],
                         st |-> "queued", cat |-> 0, fetched |-> 0,
                         kept |-> <<>>]]
    /\ volumes_dict' = EmptyMap
    /\ nres' = 0
    /\ opc' = "pool"
    /\ UNCHANGED <<catalog, filetype, disk, callvars, op, names, volumes_order>>

\* mutant of lines 240-246: VolumeDoesntExist is not caught
LookupUncaught(c) ==
    IF c.raises THEN "raised"
    ELSE IF c.n = 0 THEN "nolocators" ELSE "fetching"

\* lines 240-250 and 289-290: page_urls raising VolumeDoesntExist is logged
\* and the call returns; no urls, the call returns None
Lookup(c) ==
    IF c.raises THEN "noexist"
    ELSE IF c.n = 0 THEN "nolocators" ELSE "fetching"

\* a worker process takes the next task: _get_volume_data up to pool.map
TaskStart(k) ==
    /\ opc = "pool"
    /\ UNCHANGED auxvars
    /\ k \in DOMAIN tasks
    /\ tasks[k].st = "queued"
    /\ \A j \in 1..(k - 1) : tasks[j].st # "queued"
    /\ tasks' = [tasks EXCEPT ![k] =
                    IF VolumeExists(disk, tasks[k].id, filetype)
                    THEN [@ EXCEPT !.st = "skipped"]
                    ELSE [@ EXCEPT !.st = Lookup(catalog[tasks[k].id]),
                                   !.cat = 1]]
    /\ UNCHANGED <<catalog, filetype, disk, volumes_dict, callvars, vol_nums,
                   opc, nres, op, names, volumes_order>>

\* what the page_data calls of a volume of n locators hand to pool.map
FetchResults(n) == [1..n -> {"ok", "empty", "exc"}]

\* enumerate(all_page_urls, start=1): the indices of n locators
Enumerate(n) == [i \in 1..n |-> i]

\* mutant of the process boundary: the worker adds to the parent's Manga
ParentVolumesShared(vd, volume) == Put(vd, volume.number, volume)

\* pool.imap pickles self._get_volume_data for the task: add_volume and the
\* pages setter act on the worker's copy and the parent's Manga stays as is
ParentVolumes(vd, volume) == vd

\* _get_volume_data from pool.map to its return, on the task's copy of the
\* builder, whose Manga is the one get_manga_volumes has just made; idx are
\* the indices page_urls gave to the locators
Finish(k, idx) ==
    /\ opc = "pool"
    /\ UNCHANGED auxvars
    /\ k \in DOMAIN tasks
    /\ tasks[k].st = "fetching"
    /\ \E results \in FetchResults(catalog[tasks[k].id].n) :
        LET v == tasks[k].id
            n == catalog[v].n
            pages_data == [i \in 1..n |->
                             <<idx[i], IF results[i] = "ok" THEN ImageAt(<<v, i>>)
                                       ELSE EmptyBytes>>]
            av == AddVolume(EmptyMap, v, filetype)
            sp == SetPages(KeptPages(pages_data))
            volume == [av.volumes[v] EXCEPT !.pages = sp.pages]
            kept == [j \in 1..Len(KeptPages(pages_data)) |->
                        KeptPages(pages_data)[j][1]]
        IN IF \E i \in 1..n : results[i] = "exc"
           THEN \* pool.map raises the exception of the page_data call again
                /\ tasks' = [tasks EXCEPT ![k].st = "raised", ![k].fetched = n]
                /\ disk' = disk
                /\ volumes_dict' = volumes_dict
           ELSE IF sp.raised
           THEN \* PageAlreadyPresent is not in the except clause of line 277
                /\ tasks' = [tasks EXCEPT ![k].st = "raised", ![k].fetched = n,
                                          ![k].kept = kept]
                /\ disk' = disk
                /\ volumes_dict' = ParentVolumes(volumes_dict, av.volumes[v])
           ELSE /\ tasks' = [tasks EXCEPT
                                ![k].st = IF MissingPages(pages_data) = <<>>
                                          THEN "done" ELSE "incomplete",
                                ![k].fetched = n,
                                ![k].kept = kept]
                /\ disk' = SaveVolume(disk, volume, filetype)
                /\ volumes_dict' = ParentVolumes(volumes_dict, volume)
    /\ UNCHANGED <<catalog, filetype, callvars, vol_nums, opc,
                   nres, op, names, volumes_order>>

\* a task of a catalog that numbers its locators with enumerate
TaskFinish(k) == Finish(k, Enumerate(catalog[tasks[k].id].n))

\* the parent takes the next result from the imap iterator, in task order;
\* the exception of a task is raised again there, and leaving the
\* `with Pool()` block terminates the pool
Collect ==
    /\ opc = "pool"
    /\ UNCHANGED auxvars
    /\ nres < Len(tasks)
    /\ tasks[nres + 1].st \in Terminal
    /\ IF tasks[nres + 1].st = "raised"
       THEN /\ opc' = "raised"
            /\ tasks' = [k \in DOMAIN tasks |->
                            IF tasks[k].st \in Terminal THEN tasks[k]
                            ELSE [tasks[k] EXCEPT !.st = "killed"]]
            /\ nres' = nres
       ELSE /\ nres' = nres + 1
            /\ UNCHANGED <<opc, tasks>>
    /\ UNCHANGED <<catalog, filetype, disk, volumes_dict, callvars, vol_nums,
                   op, names, volumes_order>>

\* lines 401-406: the list is complete, the volumes are added, the Manga
\* is returned
Reconcile ==
    /\ opc = "pool"
    /\ UNCHANGED auxvars
    /\ nres = Len(tasks)
    /\ volumes_dict' = ReconcileVolumes(volumes_dict, vol_nums, filetype).volumes
    /\ opc' = IF ReconcileVolumes(volumes_dict, vol_nums, filetype).raised
              THEN "raised" ELSE "returned"
    /\ UNCHANGED <<catalog, filetype, disk, callvars, vol_nums, tasks, nres,
                   op, names, volumes_order>>

NextRun ==
    \/ \E requested \in Requests : GetMangaVolumes(requested)
    \/ \E k \in 1..(MaxReq + Cardinality(Vols)) : TaskStart(k)
    \/ \E k \in 1..(MaxReq + Cardinality(Vols)) : TaskFinish(k)
    \/ Collect
    \/ Reconcile

SpecRun == Init /\ [][NextRun]_vars

\* ------------------------------------- a catalog that repeats page indices
\* page_urls of a SiteParser is any List[Tuple[int, str]]: the indices of
\* the n locators of a volume are drawn from 1..n, repeated or not
Indices(n) == [1..n -> 1..n]

TaskFinishAny(k) ==
    /\ k \in DOMAIN tasks
    /\ \E idx \in Indices(catalog[tasks[k].id].n) : Finish(k, idx)

NextRunDup ==
    \/ \E requested \in Requests : GetMangaVolumes(requested)
    \/ \E k \in 1..(MaxReq + Cardinality(Vols)) : TaskStart(k)
    \/ \E k \in 1..(MaxReq + Cardinality(Vols)) : TaskFinishAny(k)
    \/ Collect
    \/ Reconcile

SpecRunDup == Init /\ [][NextRunDup]_vars

\* ----------------------------------------------------------------- Download
\* the manga_name arguments of Download, as sequences of characters
DownloadNames == {<<"a", "B">>, <<"7", "a">>}

\* the characters of the filetype string
Chars(ft) == IF ft = "pdf" THEN <<"p", "d", "f">> ELSE <<"c", "b", "z">>

\* MangaBuilder.__init__: filetype="pdf" unless the caller passes one
DefaultType == "pdf"

dlvars == <<catalog, filetype, callvars, orchvars, op, names, volumes_order,
            cli, tmpdir, asm, bundles, site>>

\* Download.__init__: the builder is made without a filetype, so it is of
\* the default type; the filetype is kept in Download.type
NewDownload(manga_name, ft) ==
    /\ dl.pc = "idle"
    /\ filetype = DefaultType
    /\ dl' = [pc |-> "new", manga_name |-> manga_name, type |-> ft,
              name |-> <<>>, vol_nums |-> <<>>, k |-> 0, got |-> EmptyMap,
              saved |-> {}]
    /\ UNCHANGED <<disk, volumes_dict, dlvars>>

\* download_volumes, lines 86-87, up to the pool of get_manga_volumes:
\* self.type is passed in the place of title, so the Manga is named after it
DownloadVolumes(requested) ==
    /\ dl.pc = "new"
    /\ \E resolved \in (IF requested = <<>> THEN Enumerations ELSE {requested}) :
        dl' = [dl EXCEPT !.pc = "acquiring",
                         !.name = ResolveName(<<>>, Chars(dl.type),
                                              dl.manga_name),
                         !.vol_nums = resolved]
    /\ volumes_dict' = EmptyMap
    /\ UNCHANGED <<disk, dlvars>>

\* one task of the pool of the builder, from start to end: _get_volume_data
\* of the next id on the task's copy of the builder
DownloadAcquire ==
    /\ dl.pc = "acquiring"
    /\ dl.k < Len(dl.vol_nums)
    /\ LET v == dl.vol_nums[dl.k + 1]
           n == catalog[v].n
       IN IF VolumePath(dl.name, v, filetype) \in DOMAIN disk
             \/ Lookup(catalog[v]) # "fetching"
          THEN /\ dl' = [dl EXCEPT !.k = dl.k + 1]
               /\ disk' = disk
          ELSE \E results \in FetchResults(n) :
                LET pages_data == [i \in 1..n |->
                                     <<i, IF results[i] = "ok"
                                          THEN ImageAt(<<v, i>>)
                                          ELSE EmptyBytes>>]
                    av == AddVolumeNamed(EmptyMap, dl.name, v, filetype)
                    sp == SetPages(KeptPages(pages_data))
                    volume == [av.volumes[v] EXCEPT !.pages = sp.pages]
                IN IF \E i \in 1..n : results[i] = "exc"
                   THEN /\ dl' = [dl EXCEPT !.pc = "raised"]
                        /\ disk' = disk
                   ELSE /\ dl' = [dl EXCEPT
                                    !.k = dl.k + 1,
                                    !.got = IF MissingPages(pages_data) = <<>>
                                            THEN Put(dl.got, v, pages_data)
                                            ELSE dl.got]
                        /\ disk' = SaveVolume(disk, volume, filetype)
    /\ UNCHANGED <<volumes_dict, dlvars>>

\* get_manga_volumes, lines 401-406, and download_volumes, line 88
DownloadReconcile ==
    /\ dl.pc = "acquiring"
    /\ dl.k = Len(dl.vol_nums)
    /\ LET r == ReconcileNamed(volumes_dict, dl.name, dl.vol_nums, filetype)
       IN /\ volumes_dict' = r.volumes
          /\ dl' = [dl EXCEPT !.pc = IF r.raised THEN "raised" ELSE "saving"]
    /\ UNCHANGED <<disk, dlvars>>

\* Download._to_pdf: the canvas is saved whatever the pages
DownloadToPdf(d, volume) ==
    Put(d, volume.file_path,
        [kind |-> "pdf",
         entries |-> [k \in 1..Len(VolumePages(volume)) |->
                        [number |-> VolumePages(volume)[k].number,
                         img |-> VolumePages(volume)[k].img]]])

\* Download._to_cbz: the archive is opened for writing whatever the pages;
\* an entry is named after the temporary file of enumerate's index
DownloadToCbz(d, manga_name, volume) ==
    Put(d, volume.file_path,
        [kind |-> "cbz",
         entries |-> [k \in 1..Len(VolumePages(volume)) |->
                        [number |-> VolumePages(volume)[k].number,
                         volume |-> volume.number,
                         name |-> <<"tmp", manga_name, "_", volume.number,
                                    "_page_", Decimal(k - 1), ".jpg">>,
                         img |-> VolumePages(volume)[k].img]]])

\* Download._get_save_method()(volume)
DownloadSaveMethod(d, manga_name, volume, type) ==
    IF type = "pdf" THEN DownloadToPdf(d, volume)
    ELSE DownloadToCbz(d, manga_name, volume)

\* lines 89-91: one task of pool.map(save_method, manga.volumes)
DownloadSave(v) ==
    /\ dl.pc = "saving"
    /\ v \in DOMAIN volumes_dict
    /\ v \notin dl.saved
    /\ disk' = DownloadSaveMethod(disk, dl.manga_name, volumes_dict[v], dl.type)
    /\ dl' = [dl EXCEPT !.saved = dl.saved \cup {v}]
    /\ UNCHANGED <<volumes_dict, dlvars>>

\* line 92: pool.map has returned, download_volumes returns
DownloadReturn ==
    /\ dl.pc = "saving"
    /\ dl.saved = DOMAIN volumes_dict
    /\ dl' = [dl EXCEPT !.pc = "returned"]
    /\ UNCHANGED <<disk, volumes_dict, dlvars>>

NextDownload ==
    \/ \E manga_name \in DownloadNames, ft \in FileTypes :
          NewDownload(manga_name, ft)
    \/ \E requested \in Requests : DownloadVolumes(requested)
    \/ DownloadAcquire
    \/ DownloadReconcile
    \/ \E v \in Vols : DownloadSave(v)
    \/ DownloadReturn

SpecDownload == Init /\ [][NextDownload]_vars

\* ------------------------------------ _to_cbz in two processes, lines 355-361
tmpvars == <<catalog, filetype, volumes_dict, callvars, orchvars, op, names,
             volumes_order, dl, cli, bundles, site>>

\* del dict[key]
Remove(map, key) == [k \in DOMAIN map \ {key} |-> map[k]]

\* the `with zipfile.ZipFile(...)` block is left: the archive is closed with
\* the entries written so far
CloseArchive(d, a) ==
    Put(d, VolumePath(a.work, a.volume, "cbz"),
        [kind |-> "cbz", entries |-> a.entries])

\* a worker process enters _to_cbz with a volume of n pages of a work
AsmStart(p, work, v, n) ==
    /\ asm[p].step = "idle"
    /\ asm' = [asm EXCEPT ![p] =
                [step |-> "write", work |-> work, volume |-> v,
                 pages |-> [i \in 1..n |->
                              [number |-> i, img |-> ImageAt(<<work, v, i>>)]],
                 k |-> 1, entries |-> <<>>]]
    /\ UNCHANGED <<disk, tmpdir, tmpvars>>

\* lines 357-359: tmp_jpg = gettempdir() / f"{page.number:03d}_{volume.number}.jpg"
\* and tmp_jpg.write_bytes(page.img)
TmpWrite(p) ==
    /\ asm[p].step = "write"
    /\ tmpdir' = Put(tmpdir,
                     EntryName(asm[p].pages[asm[p].k].number, asm[p].volume),
                     asm[p].pages[asm[p].k].img)
    /\ asm' = [asm EXCEPT ![p].step = "zip"]
    /\ UNCHANGED <<disk, tmpvars>>

\* line 360: cbz.write(tmp_jpg, jpgfilename) stores the bytes the temporary
\* file holds now; FileNotFoundError if it is gone
ZipWrite(p) ==
    /\ asm[p].step = "zip"
    /\ LET jpgfilename == EntryName(asm[p].pages[asm[p].k].number,
                                    asm[p].volume)
       IN IF jpgfilename \in DOMAIN tmpdir
          THEN /\ asm' = [asm EXCEPT
                            ![p].step = "unlink",
                            ![p].entries =
                                Append(@, [number |-> asm[p].pages[asm[p].k].number,
                                           volume |-> asm[p].volume,
                                           name |-> jpgfilename,
                                           img |-> tmpdir[jpgfilename]])]
               /\ disk' = disk
          ELSE /\ asm' = [asm EXCEPT ![p].step = "raised"]
               /\ disk' = CloseArchive(disk, asm[p])
    /\ UNCHANGED <<tmpdir, tmpvars>>

\* line 361: tmp_jpg.unlink(), FileNotFoundError if the file is gone; after
\* the last page the archive is closed
TmpUnlink(p) ==
    /\ asm[p].step = "unlink"
    /\ LET jpgfilename == EntryName(asm[p].pages[asm[p].k].number,
                                    asm[p].volume)
       IN IF jpgfilename \in DOMAIN tmpdir
          THEN /\ tmpdir' = Remove(tmpdir, jpgfilename)
               /\ IF asm[p].k < Len(asm[p].pages)
                  THEN /\ asm' = [asm EXCEPT ![p].step = "write",
                                             ![p].k = asm[p].k + 1]
                       /\ disk' = disk
                  ELSE /\ asm' = [asm EXCEPT ![p].step = "done"]
                       /\ disk' = CloseArchive(disk, asm[p])
          ELSE /\ tmpdir' = tmpdir
               /\ asm' = [asm EXCEPT ![p].step = "raised"]
               /\ disk' = CloseArchive(disk, asm[p])
    /\ UNCHANGED tmpvars

NextTmp ==
    \/ \E p \in AsmProcs, work \in WorkNames, v \in Vols, n \in 1..MaxPages :
          AsmStart(p, work, v, n)
    \/ \E p \in AsmProcs : TmpWrite(p)
    \/ \E p \in AsmProcs : ZipWrite(p)
    \/ \E p \in AsmProcs : TmpUnlink(p)

SpecTmp == InitData /\ [][NextTmp]_vars

\* ------------------------------------------------------- the manga parsers
\* longest sequence of calls made on the manga parsers
MaxCalls == 2

sitevars == <<catalog, filetype, disk, volumes_dict, callvars, orchvars, op,
              names, volumes_order, dl, cli, tmpdir, asm, bundles>>

\* the manga parser classes and the two methods that ask the site
MangaParsers == {"MangaKakaMangaParser", "ManganeloMangaParser",
                 "MangaReaderMangaParser"}
ParserMethods == {"all_volume_numbers", "page_urls"}

\* what the site answers to the request of a call: a status and, with
\* status 200, a page: one with a reader of images, one with an empty
\* reader, one holding the text "404 NOT FOUND", or some other page
SiteStatuses == {200, 400, 403, 404, 500}
SitePages == {"reader", "emptyreader", "notfound", "other"}
SiteAnswers ==
    {[status |-> st, page |-> pg] : st \in SiteStatuses \ {200}, pg \in {"none"}}
    \cup {[status |-> 200, page |-> pg] : pg \in SitePages}

\* utils.get_html_from_url: the parsed page, or requests' HTTPError for an
\* error status
GetHtmlFromUrl(answer) ==
    IF answer.status >= 400
    THEN [raised |-> "HTTPError", status |-> answer.status, page |-> "none"]
    ELSE [raised |-> "none", status |-> answer.status, page |-> answer.page]

\* MangaKakaMangaParser.all_volume_numbers, and ManganeloMangaParser's,
\* which has the same body
KakaAllVolumeNumbers(answer) ==
    LET r == GetHtmlFromUrl(answer)
    IN IF r.raised = "HTTPError"
       THEN IF r.status = 404 THEN "MangaDoesNotExist" ELSE "HTTPError"
       ELSE "returned"

\* _scrape_volume of the two parsers: an HTTP error other than 404 is
\* caught and the method falls off its end
KakaScrapeVolume(answer) ==
    LET r == GetHtmlFromUrl(answer)
    IN IF r.raised = "HTTPError"
       THEN IF r.status = 404 THEN "MangaDoesNotExist" ELSE "None"
       ELSE IF r.page = "notfound" THEN "VolumeDoesntExist"
       ELSE r.page

\* MangaKakaMangaParser.page_urls; debug formats all_img_tags[0]
KakaPageUrls(answer) ==
    LET volume_html == KakaScrapeVolume(answer)
    IN IF volume_html \in {"MangaDoesNotExist", "VolumeDoesntExist"}
       THEN volume_html
       ELSE IF volume_html = "None" THEN "returned None"
       ELSE IF volume_html = "other" THEN "AttributeError"
       ELSE IF volume_html = "emptyreader" THEN "IndexError"
       ELSE "returned"

\* ManganeloMangaParser.page_urls
NeloPageUrls(answer) ==
    LET volume_html == KakaScrapeVolume(answer)
    IN IF volume_html \in {"MangaDoesNotExist", "VolumeDoesntExist"}
       THEN volume_html
       ELSE IF volume_html = "None" THEN "returned None"
       ELSE IF volume_html = "other" THEN "AttributeError"
       ELSE "returned"

\* MangaReaderMangaParser: both methods format the url with self.name, an
\* attribute BaseMangaParser.__init__ does not set, before any request
ReaderMethod(answer) == "AttributeError"

\* parser(manga_url).<method>(...) against a site that gives the answer
ParserOutcome(parser, method, answer) ==
    IF parser = "MangaReaderMangaParser" THEN ReaderMethod(answer)
    ELSE IF method = "all_volume_numbers" THEN KakaAllVolumeNumbers(answer)
    ELSE IF parser = "MangaKakaMangaParser" THEN KakaPageUrls(answer)
    ELSE NeloPageUrls(answer)

ParserCall(parser, method, answer) ==
    /\ Len(site) < MaxCalls
    /\ site' = Append(site, [parser |-> parser, method |-> method,
                             answer |-> answer,
                             outcome |-> ParserOutcome(parser, method, answer)])
    /\ UNCHANGED sitevars

NextParser ==
    \E parser \in MangaParsers, method \in ParserMethods, answer \in SiteAnswers :
        ParserCall(parser, method, answer)

SpecParser == InitData /\ [][NextParser]_vars

\* ------------------------------------------------------------------- Bundle
\* most chapters of a Manga that is bundled, largest chapters_per_volume
MaxChapters == 3
MaxPerVolume == 2

bundlevars == <<catalog, filetype, disk, volumes_dict, callvars, orchvars, op,
                names, volumes_order, dl, cli, tmpdir, asm, site>>

\* modification times: 0 stands for a file that does not exist; a chapter
\* archive was written before or after the bundle of an earlier run, and
\* what this run writes is newer than both
Absent == 0
ChapterTimes == {Absent, 1, 3}
BundleTimes == {Absent, 2}
Now == 4

\* a // b of Python for b # 0: the floor of the quotient
FloorDiv(a, b) == IF b > 0 THEN a \div b ELSE (0 - a) \div (0 - b)

\* ceiling_division
CeilingDivision(n, d) == 0 - FloorDiv(n, 0 - d)

\* min(a, b)
Min(a, b) == IF a < b THEN a ELSE b

\* list[j] of a list of n items: a negative index counts from the end
PyIndex(n, j) == IF j < 0 THEN j + n ELSE j

\* mutant of line 118: the bundles overlap by one chapter
ChapterStartOverlap(volume_index, k) ==
    IF volume_index = 0 THEN 0 ELSE volume_index * k - 1

\* lines 118-122
ChapterStart(volume_index, k) == volume_index * k
ChapterEnd(volume_index, n, k) ==
    Min(n - 1, ChapterStart(volume_index, k) + k - 1)
NumChapters(volume_index, n, k) ==
    ChapterEnd(volume_index, n, k) - ChapterStart(volume_index, k) + 1

\* lines 142-145: manga_chapters[chapter_start + chapter - 1] for chapter in
\* range(num_chapters), as positions in manga_chapters
Dependencies(volume_index, n, k) ==
    [c \in 1..NumChapters(volume_index, n, k) |->
        PyIndex(n, ChapterStart(volume_index, k) + (c - 1) - 1)]

\* is_obsolete(target, dependencies) on modification times: TRUE, FALSE, or
\* "raised" when getmtime meets a dependency that does not exist
RECURSIVE IsObsoleteFrom(_, _)
IsObsoleteFrom(target, deps) ==
    IF deps = <<>> THEN "no"
    ELSE IF Head(deps) = Absent THEN "raised"
    ELSE IF target - Head(deps) < 0 THEN "yes"
    ELSE IsObsoleteFrom(target, Tail(deps))

IsObsolete(target, deps) ==
    IF target = Absent THEN "yes" ELSE IsObsoleteFrom(target, deps)

\* lines 162-184: the chapters at chapter_start + chapter are unzipped and
\* added one after the other; extract_cbz raises at one that does not exist
RECURSIVE PackFrom(_, _, _, _)
PackFrom(mt, pos, last, acc) ==
    IF pos > last THEN [raised |-> FALSE, packed |-> acc]
    ELSE IF mt[pos] = Absent THEN [raised |-> TRUE, packed |-> acc]
    ELSE PackFrom(mt, pos + 1, last, Append(acc, pos))

\* Bundle(manga, k).bundle() up to pool.imap: one task per bundle index;
\* mt are the times of the chapter archives in the order of manga.volumes,
\* old the times of the bundle archives of an earlier run
NewBundle(n, k, mt, old) ==
    /\ bundles.pc = "idle"
    /\ bundles' = [pc |-> "pool", n |-> n, k |-> k, mt |-> mt, old |-> old,
                   files |-> [i \in DOMAIN old |->
                                [cbz |-> old[i], mobi |-> old[i],
                                 packed |-> <<>>]],
                   tasks |-> [i \in 0..(CeilingDivision(n, k) - 1) |-> "queued"]]
    /\ UNCHANGED bundlevars

\* create_volume(volume_index) in a worker of the pool
CreateVolume(volume_index) ==
    /\ bundles.pc = "pool"
    /\ volume_index \in DOMAIN bundles.tasks
    /\ bundles.tasks[volume_index] = "queued"
    /\ LET n == bundles.n
           k == bundles.k
           target == bundles.files[volume_index]
           deps == Dependencies(volume_index, n, k)
           obsolete == IsObsolete(target.cbz,
                                  [c \in DOMAIN deps |-> bundles.mt[deps[c]]])
           pk == PackFrom(bundles.mt, ChapterStart(volume_index, k),
                          ChapterEnd(volume_index, n, k), <<>>)
       IN IF obsolete = "raised"
          THEN bundles' = [bundles EXCEPT !.tasks[volume_index] = "raised"]
          ELSE IF obsolete = "no"
          THEN \* lines 190-195: the mobi file is as old as the archive
               bundles' = [bundles EXCEPT !.tasks[volume_index] = "kept"]
          ELSE IF pk.raised
          THEN \* the archive was opened for writing and is left as it is
               bundles' = [bundles EXCEPT
                            !.tasks[volume_index] = "raised",
                            !.files[volume_index] =
                                [cbz |-> Now, mobi |-> target.mobi,
                                 packed |-> pk.packed]]
          ELSE bundles' = [bundles EXCEPT
                            !.tasks[volume_index] = "rebuilt",
                            !.files[volume_index] =
                                [cbz |-> Now, mobi |-> Now,
                                 packed |-> pk.packed]]
    /\ UNCHANGED bundlevars

\* lines 208-215: list() has taken every result, bundle returns
BundleReturn ==
    /\ bundles.pc = "pool"
    /\ \A i \in DOMAIN bundles.tasks : bundles.tasks[i] \in {"kept", "rebuilt"}
    /\ bundles' = [bundles EXCEPT !.pc = "done"]
    /\ UNCHANGED bundlevars

\* list() meets the exception of a task, after the results of the tasks
\* before it; leaving the `with Pool(4)` block terminates the pool
BundleRaise ==
    /\ bundles.pc = "pool"
    /\ \E j \in DOMAIN bundles.tasks :
        /\ bundles.tasks[j] = "raised"
        /\ \A i \in 0..(j - 1) : bundles.tasks[i] \in {"kept", "rebuilt"}
    /\ bundles' = [bundles EXCEPT
                    !.pc = "raised",
                    !.tasks = [i \in DOMAIN bundles.tasks |->
                                 IF bundles.tasks[i] = "queued" THEN "killed"
                                 ELSE bundles.tasks[i]]]
    /\ UNCHANGED bundlevars

NextBundle ==
    \/ \E n \in 0..MaxChapters, k \in 1..MaxPerVolume :
        \E mt \in [0..(n - 1) -> ChapterTimes],
           old \in [0..(CeilingDivision(n, k) - 1) -> BundleTimes] :
            NewBundle(n, k, mt, old)
    \/ \E volume_index \in 0..MaxChapters : CreateVolume(volume_index)
    \/ BundleReturn
    \/ BundleRaise

SpecBundle == InitData /\ [][NextBundle]_vars

\* ---------------------------------------------------------------------- cli
\* most times a run starts again with --search after MangaDoesNotExist
MaxRetries == 1

clivars == <<catalog, filetype, disk, volumes_dict, callvars, orchvars, op,
             names, volumes_order, dl, tmpdir, asm, bundles, site>>

\* --upload: absent, or one of the choices of the argument parser
UploadArgs == {"none", "dropbox", "mega", "pcloud"}

\* the keys of the services dict of upload(); "mega" is commented out
UploadServices == {"dropbox", "pcloud"}

\* --bundle: absent, or the chapters per volume
BundleArgs == {0, 2}

\* what the call of download_manga gives to cli: a Manga, whose volumes
\* have a file on disk or not, MangaDoesNotExist, or another exception
DownloadOutcomes ==
    {[kind |-> "manga", files |-> f] :
        f \in UNION {[S -> BOOLEAN] : S \in SUBSET Vols}}
    \cup {[kind |-> k, files |-> EmptyMap] : k \in {"MangaDoesNotExist", "raised"}}

\* what uploader(manga) does: BaseUploader.upload returns when the map over
\* the volumes is done, or an upload_volume call raises
UploadOutcomes == {"returned", "raised"}

\* one step of a cli run
Event(e, v) == [e |-> e, v |-> v]

\* the ids of a Manga in the order of manga.volumes; the ids of Vols are
\* single characters
RECURSIVE InOrder(_)
InOrder(S) ==
    IF S = {} THEN <<>>
    ELSE LET v == CHOOSE w \in S :
                    \A u \in S \ {w} : KeyLess(AlphanumKey(<<w>>), AlphanumKey(<<u>>))
         IN <<v>> \o InOrder(S \ {v})

\* mutant of lines 115-116: the test is lost
RejectsRemoveNever(remove, upload) == FALSE

\* lines 115-116: if args["remove"] and not args["upload"]
RejectsRemove(remove, upload) == remove /\ upload = "none"

\* lines 107-135: the arguments are parsed and checked
CliStart(upload, remove, bundle, search, manga) ==
    /\ cli.pc = "idle"
    /\ cli' = [pc |-> IF RejectsRemove(remove, upload) \/ (~search /\ ~manga)
                      THEN "raised" ELSE "download",
               upload |-> upload, remove |-> remove, bundle |-> bundle,
               search |-> search, retries |-> 0, events |-> <<>>,
               files |-> EmptyMap, left |-> <<>>]
    /\ UNCHANGED clivars

\* lines 137-152: download_manga; after MangaDoesNotExist cli runs again on
\* the arguments changed to a search, which keep --upload and --remove
CliDownload(result) ==
    /\ cli.pc = "download"
    /\ result.kind = "MangaDoesNotExist" => cli.retries < MaxRetries
    /\ cli' = [cli EXCEPT
                !.events = Append(@, Event("download", "none")),
                !.pc = IF result.kind = "manga" THEN "upload"
                       ELSE IF result.kind = "raised" THEN "raised"
                       ELSE IF RejectsRemove(cli.remove, cli.upload)
                       THEN "raised" ELSE "download",
                !.search = IF result.kind = "MangaDoesNotExist" THEN TRUE
                           ELSE @,
                !.retries = IF result.kind = "MangaDoesNotExist" THEN @ + 1
                            ELSE @,
                !.files = result.files,
                !.left = InOrder(DOMAIN result.files)]
    /\ UNCHANGED clivars

\* lines 154-155 and upload(): no service asked for, a service that is not
\* in the dict (KeyError), or the uploader is called with the Manga
CliUpload ==
    /\ cli.pc = "upload"
    /\ cli' = IF cli.upload = "none" THEN [cli EXCEPT !.pc = "remove"]
              ELSE IF cli.upload \notin UploadServices
              THEN [cli EXCEPT !.pc = "raised"]
              ELSE [cli EXCEPT !.pc = "uploading",
                               !.events = Append(@, Event("upload", "none"))]
    /\ UNCHANGED clivars

\* the uploader returns or raises
CliUploadEnd(result) ==
    /\ cli.pc = "uploading"
    /\ cli' = IF result = "returned"
              THEN [cli EXCEPT !.pc = "remove",
                               !.events = Append(@, Event("uploaded", "none"))]
              ELSE [cli EXCEPT !.pc = "raised"]
    /\ UNCHANGED clivars

\* lines 157-159: for volume in manga.volumes: volume.file_path.unlink(),
\* which raises FileNotFoundError when the file does not exist
CliRemove ==
    /\ cli.pc = "remove"
    /\ cli' = IF ~cli.remove \/ cli.left = <<>>
              THEN [cli EXCEPT !.pc = "bundle"]
              ELSE IF cli.files[Head(cli.left)]
              THEN [cli EXCEPT
                      !.files[Head(cli.left)] = FALSE,
                      !.left = Tail(@),
                      !.events = Append(@, Event("unlink", Head(cli.left)))]
              ELSE [cli EXCEPT !.pc = "raised"]
    /\ UNCHANGED clivars

\* lines 161-164: bundle(manga, k) reads the archive of every chapter
CliBundle ==
    /\ cli.pc = "bundle"
    /\ cli' = IF cli.bundle = 0 THEN [cli EXCEPT !.pc = "returned"]
              ELSE IF \A v \in DOMAIN cli.files : cli.files[v]
              THEN [cli EXCEPT !.pc = "returned",
                               !.events = Append(@, Event("bundle", "none"))]
              ELSE [cli EXCEPT !.pc = "raised",
                               !.events = Append(@, Event("bundle", "none"))]
    /\ UNCHANGED clivars

NextCli ==
    \/ \E upload \in UploadArgs, remove \in BOOLEAN, bundle \in BundleArgs,
          search \in BOOLEAN, manga \in BOOLEAN :
          CliStart(upload, remove, bundle, search, manga)
    \/ \E result \in DownloadOutcomes : CliDownload(result)
    \/ CliUpload
    \/ \E result \in UploadOutcomes : CliUploadEnd(result)
    \/ CliRemove
    \/ CliBundle

SpecCli == InitData /\ [][NextCli]_vars

\* ================================================================ claims
\* the output path of the running call and what the call has done so far
CurPath == VolumePath(MangaName, cur, filetype)
FetchesStarted == Len(fres)
RequestsIssued == SeqSum(nreq)

\* C1: SKIPPED short-circuit. A call of _get_volume_data that starts while
\* the output path of its volume exists ends at once: page_urls is not
\* called, no page_data call is started, no request is issued and the files
\* on disk are left as they were.
C1_SkipShortCircuit ==
    [][\A v \in Vols :
         (pc = "idle" /\ pc' # "idle" /\ cur' = v
            /\ VolumePath(MangaName, v, filetype) \in DOMAIN disk)
         => /\ pc' = "returned"
            /\ outcome' = "skipped"
            /\ catCalls' = 0
            /\ fres' = <<>> /\ nreq' = <<>>
            /\ disk' = disk]_vars

C1_Witness ==
    /\ pc = "returned"
    /\ outcome = "skipped"
    /\ CurPath \in DOMAIN disk
    /\ catCalls = 0

\* C2 as stated: a first call of acquire for a volume performs network I/O,
\* and every call after it performs none and ends SKIPPED.
C2_Original ==
    pc = "returned" =>
        /\ hist[cur] = "none" => catCalls + FetchesStarted > 0
        /\ hist[cur] # "none" =>
              outcome = "skipped" /\ catCalls = 0 /\ FetchesStarted = 0

\* C2 amended: the first call of acquire for a volume performs network I/O;
\* when an earlier call wrote the container of the volume, a later call
\* performs no network I/O and ends SKIPPED; when the earlier calls wrote no
\* file, the later call asks the catalog again.
C2_Idempotent ==
    pc = "returned" =>
        /\ hist[cur] = "none" => catCalls + FetchesStarted > 0
        /\ hist[cur] = "wrote" =>
              /\ outcome = "skipped"
              /\ catCalls = 0
              /\ FetchesStarted = 0
              /\ RequestsIssued = 0
        /\ hist[cur] = "nowrite" => outcome # "skipped" /\ catCalls = 1

C2_Witness ==
    /\ pc = "returned"
    /\ hist[cur] = "wrote"
    /\ outcome = "skipped"

\* the locators of the running call whose page_data returned bytes / nothing
OkPages == {i \in DOMAIN fval : fres[i] = "ret" /\ fval[i][2] # EmptyBytes}
EmptyPages == {i \in DOMAIN fval : fres[i] = "ret" /\ fval[i][2] = EmptyBytes}
EveryFetchReturned == fres # <<>> /\ \A i \in DOMAIN fres : fres[i] = "ret"

\* C3: partial failure. When every fetch of the volume has returned, some
\* of them empty and some not, the call leaves a container at the output
\* path that holds exactly the pages fetched with bytes, each with the bytes
\* fetched for it, and its error log names exactly the indices of the empty
\* pages.
C3_PartialFailure ==
    (pc = "returned" /\ EveryFetchReturned /\ OkPages # {} /\ EmptyPages # {}) =>
        /\ CurPath \in DOMAIN disk
        /\ LET e == disk[CurPath].entries
           IN /\ Len(e) = Cardinality(OkPages)
              /\ \A i \in OkPages :
                    \E k \in 1..Len(e) :
                        e[k].number = fval[i][1] /\ e[k].img = fval[i][2]
        /\ \E r \in log :
              /\ r[1] = "missing pages"
              /\ r[2] = cur
              /\ Len(r[3]) = Cardinality(EmptyPages)
              /\ Range(r[3]) = {fval[i][1] : i \in EmptyPages}
        /\ Cardinality({r \in log : r[1] = "missing pages"}) = 1

C3_Witness ==
    /\ pc = "returned"
    /\ EveryFetchReturned
    /\ OkPages # {} /\ EmptyPages # {}
    /\ CurPath \in DOMAIN disk

\* C4 as stated: whenever every fetch of a volume with at least one locator
\* has returned and at least one page is empty, the call leaves a container
\* at the output path.
C4_Original ==
    (pc = "returned" /\ EveryFetchReturned /\ EmptyPages # {}) =>
        CurPath \in DOMAIN disk

\* C4 amended: such a call leaves a container at the output path, for pdf
\* and for cbz, when at least one page was fetched with bytes; when every
\* page is empty it leaves no file.
C4_IncompleteHasContainer ==
    (pc = "returned" /\ EveryFetchReturned /\ EmptyPages # {}) =>
        /\ OkPages # {} =>
              CurPath \in DOMAIN disk /\ disk[CurPath].kind = filetype
        /\ OkPages = {} => CurPath \notin DOMAIN disk

C4_Witness ==
    /\ pc = "returned"
    /\ filetype = "cbz"
    /\ EveryFetchReturned
    /\ EmptyPages # {} /\ OkPages # {}
    /\ CurPath \in DOMAIN disk
    /\ disk[CurPath].kind = "cbz"

\* strictly ascending by page number
Ascending(seq) == \A k \in 1..(Len(seq) - 1) : seq[k].number < seq[k + 1].number

\* C5: page order. Whatever the order in which pages were added to a
\* Volume, Volume.pages lists all of them strictly ascending by index, and
\* the entries of every assembled container are strictly ascending by index.
C5_PageOrder ==
    /\ \A v \in DOMAIN volumes_dict :
          LET ps == VolumePages(volumes_dict[v])
          IN /\ Ascending(ps)
             /\ Len(ps) = Len(volumes_dict[v].pages)
             /\ Range(ps) = Range(volumes_dict[v].pages)
    /\ \A path \in DOMAIN disk :
          /\ Ascending(disk[path].entries)
          /\ disk[path].entries # <<>>

C5_Witness ==
    \E v \in DOMAIN volumes_dict :
        /\ Len(volumes_dict[v].pages) >= 2
        /\ volumes_dict[v].pages[1].number > volumes_dict[v].pages[2].number
        /\ volumes_dict[v].file_path \in DOMAIN disk
        /\ Len(disk[volumes_dict[v].file_path].entries) = Len(volumes_dict[v].pages)

\* C6: wait for all before assembling. The Manga of the running call gets
\* its volume and pages in one step, taken when no page_data call of the
\* volume is pending any more, and a file is written only after that; while
\* a fetch is pending nothing is attached and nothing is written.
C6_WaitForAll ==
    [][/\ (volumes_dict' # volumes_dict /\ volumes_dict' # EmptyMap) =>
            /\ pc = "fetching" /\ pc' = "saving"
            /\ volumes_dict = EmptyMap
            /\ fres # <<>>
            /\ \A i \in DOMAIN fres : fres[i] # "pending"
       /\ disk' # disk =>
            /\ pc = "saving"
            /\ \A i \in DOMAIN fres : fres[i] # "pending"
       /\ (\E i \in DOMAIN fres : fres[i] = "pending") =>
            disk' = disk /\ volumes_dict' = volumes_dict]_vars

C6_Witness ==
    /\ pc = "saving"
    /\ Len(fres) >= 2
    /\ cur \in DOMAIN volumes_dict
    /\ Len(volumes_dict[cur].pages) >= 2

\* C7: retry bound. A page_data call issues at most 5 requests; while it is
\* running every response so far was a non-success one and each was counted;
\* a non-success response of any status leaves the call running until the
\* 5th, after which it logs the failure and returns (index, empty); a
\* success response ends the call at once, also at the 5th request.
C7_RetryBound ==
    \A i \in DOMAIN fres :
        /\ nreq[i] <= 5
        /\ fres[i] = "pending" =>
              /\ nreq[i] = attempt[i]
              /\ attempt[i] < 5
              /\ req[i].status # 200
        /\ (req[i].kind = "response" /\ req[i].status # 200 /\ fres[i] # "exc") =>
              /\ attempt[i] < 5 => fres[i] = "pending"
              /\ attempt[i] >= 5 =>
                    /\ fres[i] = "ret"
                    /\ nreq[i] = 5 /\ attempt[i] = 5
                    /\ fval[i] = <<urls[i][1], EmptyBytes>>
                    /\ <<"Download FAILED page", urls[i][1]>> \in log
        /\ (req[i].kind = "response" /\ req[i].status = 200) =>
              /\ fres[i] = "ret"
              /\ nreq[i] = attempt[i] + 1
              /\ <<"Download FAILED page", urls[i][1]>> \notin log

C7_Witness ==
    \E i \in DOMAIN fres :
        /\ fres[i] = "ret"
        /\ nreq[i] = 5 /\ attempt[i] = 5
        /\ req[i].status \in {404, 500}
        /\ fval[i] = <<urls[i][1], EmptyBytes>>

\* C8 as stated: no page_data call raises and no call of _get_volume_data
\* ends with an exception.
C8_NeverRaises ==
    /\ \A i \in DOMAIN fres : fres[i] # "exc"
    /\ outcome # "raised"

\* C9: corrupt image. When the latest response of a page_data call is a
\* success whose bytes do not decode, the call has returned (index, empty)
\* and logged the corruption, and that response was its last request.
C9_CorruptImage ==
    \A i \in DOMAIN fres :
        (req[i].kind = "response" /\ req[i].status = 200
            /\ req[i].content = CorruptBytes) =>
            /\ fres[i] = "ret"
            /\ fval[i] = <<urls[i][1], EmptyBytes>>
            /\ <<"Image file corrupted", urls[i][1]>> \in log
            /\ nreq[i] = attempt[i] + 1

C9_Witness ==
    \E i \in DOMAIN fres :
        /\ req[i].status = 200
        /\ req[i].content = CorruptBytes
        /\ fres[i] = "ret"
        /\ fval[i][2] = EmptyBytes

\* C10: fetch success. When the latest response of a page_data call is a
\* success whose bytes decode, the call has returned the index it was given
\* together with exactly those bytes, which are not empty.
C10_FetchSuccess ==
    \A i \in DOMAIN fres :
        (req[i].kind = "response" /\ req[i].status = 200
            /\ req[i].content = ImageAt(urls[i][2])) =>
            /\ fres[i] = "ret"
            /\ fval[i] = <<urls[i][1], req[i].content>>
            /\ fval[i][2] # EmptyBytes
            /\ <<"Download FAILED page", urls[i][1]>> \notin log
            /\ <<"Image file corrupted", urls[i][1]>> \notin log

C10_Witness ==
    \E i \in DOMAIN fres :
        /\ req[i].status = 200
        /\ nreq[i] = 5
        /\ fres[i] = "ret"
        /\ fval[i] = <<urls[i][1], ImageAt(urls[i][2])>>

\* the output path of the volume of task k of the pool
TaskPath(k) == VolumePath(MangaName, tasks[k].id, filetype)

\* C11: every resolved id is represented. When get_manga_volumes returns,
\* the volumes of the returned Manga are exactly the ids of the resolved
\* list, one Volume per id, whatever the outcome of each task was and also
\* when the list names an id more than once.
C11_EveryIdRepresented ==
    opc = "returned" =>
        /\ DOMAIN volumes_dict = {vol_nums[k] : k \in DOMAIN vol_nums}
        /\ \A v \in DOMAIN volumes_dict : volumes_dict[v].number = v

C11_Witness ==
    /\ opc = "returned"
    /\ Len(vol_nums) = 2
    /\ vol_nums[1] = vol_nums[2]
    /\ tasks[1].st = "incomplete"
    /\ tasks[2].st = "skipped"
    /\ DOMAIN volumes_dict = {vol_nums[1]}

C13_WorkerIsolation ==
    \A k \in DOMAIN tasks : tasks[k].st # "killed"

\* C14: a repeated page index is swallowed. A task whose fetched pages
\* hold the same index twice, both with image bytes, still ends normally
\* (DONE or DONE-INCOMPLETE): the later insertion is dropped and nothing is
\* raised.
C14_DuplicateSwallowed ==
    \A k \in DOMAIN tasks :
        (/\ tasks[k].st \notin {"queued", "fetching"}
         /\ \E i, j \in DOMAIN tasks[k].kept :
               i < j /\ tasks[k].kept[i] = tasks[k].kept[j])
        => tasks[k].st \in {"done", "incomplete"}

\* C15: no silent overwrite in the aggregates. No Volume holds a page
\* number twice; every add_page and add_volume call leaves each volume and
\* each page already held as it was; and a call for a number or an id
\* already held raises and changes nothing.
C15_NoSilentOverwrite ==
    /\ [](\A v \in DOMAIN volumes_dict :
            \A i, j \in 1..Len(volumes_dict[v].pages) :
                i < j => volumes_dict[v].pages[i].number
                            # volumes_dict[v].pages[j].number)
    /\ [][/\ \A v \in DOMAIN volumes_dict :
               /\ v \in DOMAIN volumes_dict'
               /\ Len(volumes_dict'[v].pages) >= Len(volumes_dict[v].pages)
               /\ \A k \in 1..Len(volumes_dict[v].pages) :
                     volumes_dict'[v].pages[k] = volumes_dict[v].pages[k]
          /\ (/\ op'.name = "add_page"
              /\ \E k \in 1..Len(volumes_dict[op'.v].pages) :
                    volumes_dict[op'.v].pages[k].number = op'.n)
             => op'.raised /\ volumes_dict' = volumes_dict
          /\ (op'.name = "add_volume" /\ op'.v \in DOMAIN volumes_dict)
             => op'.raised /\ volumes_dict' = volumes_dict]_vars

C15_Witness ==
    /\ op.name = "add_page"
    /\ op.raised
    /\ \E k \in 1..Len(volumes_dict[op.v].pages) :
         /\ volumes_dict[op.v].pages[k].number = op.n
         /\ volumes_dict[op.v].pages[k].img # op.img

\* C16: a missing volume is a no-op. A task whose volume page_urls reports
\* as not existing, or for which it returns no locator, ends without a page
\* fetch, without a write and without an exception; the other tasks are
\* left as they are, and the parent takes its result and goes on to the
\* next one.
C16_MissingIsNoOp ==
    [][/\ \A k \in DOMAIN tasks :
            (/\ opc = "pool" /\ opc' = "pool"
             /\ tasks[k].st = "queued" /\ tasks'[k].st # "queued"
             /\ TaskPath(k) \notin DOMAIN disk
             /\ (catalog[tasks[k].id].raises \/ catalog[tasks[k].id].n = 0))
            => /\ tasks'[k].st \in {"noexist", "nolocators"}
               /\ tasks'[k].fetched = 0
               /\ disk' = disk
               /\ \A j \in DOMAIN tasks \ {k} : tasks'[j] = tasks[j]
       /\ (/\ opc = "pool" /\ nres < Len(tasks)
           /\ tasks[nres + 1].st \in {"noexist", "nolocators"}
           /\ <<opc, nres>>' # <<opc, nres>>)
          => /\ opc' = "pool"
             /\ nres' = nres + 1
             /\ tasks' = tasks]_vars

C16_Witness ==
    /\ opc = "returned"
    /\ Len(tasks) = 2
    /\ tasks[1].st = "noexist"
    /\ tasks[1].fetched = 0
    /\ TaskPath(1) \notin DOMAIN disk
    /\ tasks[2].st = "done"

\* the characters a sanitized name may hold, and a string without the
\* characters outside that set
AllowedChars == {"a", "B", "7", " ", ".", "_", "-"}
OnlyAllowed(str) == SelectSeq(str, LAMBDA c : c \in AllowedChars)

\* C17: name resolution. The name of the Manga is made of the
\* preferred_name if one is given, else of the title if one is given, else
\* of the manga url: it is that string without the characters other than
\* alphanumerics, space, dot, underscore and hyphen, and without spaces at
\* its end; the directory and the file name of every volume path start
\* with it.
C17_NameResolution ==
    names # NoNames =>
        LET source == IF names.preferred_name # <<>> THEN names.preferred_name
                      ELSE IF names.title # <<>> THEN names.title
                      ELSE names.manga_url
            clean == OnlyAllowed(source)
        IN /\ \A k \in 1..Len(names.name) : names.name[k] \in AllowedChars
           /\ Len(names.name) <= Len(clean)
           /\ names.name = SubSeq(clean, 1, Len(names.name))
           /\ \A k \in (Len(names.name) + 1)..Len(clean) : clean[k] = " "
           /\ names.name # <<>> => names.name[Len(names.name)] # " "
           /\ \A v \in DOMAIN volumes_dict :
                 /\ volumes_dict[v].file_path[2] = names.name
                 /\ volumes_dict[v].file_path[3] = names.name

C17_Witness ==
    /\ names.preferred_name = <<>>
    /\ names.title = <<"7", " ", ":", " ">>
    /\ names.name = <<"7">>
    /\ volumes_dict # EmptyMap

\* the place of each id in the natural order: "2" and "02" are the same
\* number, the ids that start with a letter come after the numbers, "a2"
\* before "B1"
NaturalRank(id) ==
    CASE id = <<"1">> -> 1
      [] id = <<"2">> -> 2
      [] id = <<"0", "2">> -> 2
      [] id = <<"9">> -> 3
      [] id = <<"1", "0">> -> 4
      [] id = <<"1", "0", ".", "5">> -> 5
      [] id = <<"a", "2">> -> 6
      [] id = <<"B", "1">> -> 7

\* C18: natural order of volumes. The list Manga.volumes returns holds each
\* id of the Manga once and no other, and its ids are in natural order: a
\* run of digits counts as a number, so "9" comes before "10".
C18_NaturalOrder ==
    op.name = "volumes" =>
        /\ Len(op.v) = Cardinality(DOMAIN volumes_dict)
        /\ {op.v[k] : k \in 1..Len(op.v)} = DOMAIN volumes_dict
        /\ \A i, j \in 1..Len(op.v) :
              i < j => NaturalRank(op.v[i]) <= NaturalRank(op.v[j])

C18_Witness ==
    /\ op.name = "volumes"
    /\ volumes_order = <<<<"2">>, <<"1", "0">>, <<"1">>>>
    /\ op.v = <<<<"1">>, <<"2">>, <<"1", "0">>>>

\* the page numbers as the archive entries show them
PaddedIndex(n) ==
    CASE n = 1 -> "001" [] n = 2 -> "002" [] n = 12 -> "012" [] n = 1000 -> "1000"

\* C19: archive entry naming. A cbz file holds as many entries as the
\* volume has pages, and for each page number i of the volume of id v
\* exactly one entry, named i padded with zeros to three digits, "_", v and
\* ".jpg": no directory and no work name is part of it.
C19_EntryNaming ==
    \A id \in DOMAIN volumes_dict :
        LET path == volumes_dict[id].file_path
        IN (path \in DOMAIN disk /\ disk[path].kind = "cbz") =>
            /\ Len(disk[path].entries) = Len(volumes_dict[id].pages)
            /\ \A k \in 1..Len(volumes_dict[id].pages) :
                 Cardinality({e \in 1..Len(disk[path].entries) :
                    disk[path].entries[e].name =
                        PaddedIndex(volumes_dict[id].pages[k].number)
                            \o "_" \o id \o ".jpg"}) = 1

C19_Witness ==
    /\ names.name = "Dragon Ball"
    /\ "12" \in DOMAIN volumes_dict
    /\ volumes_dict["12"].file_path \in DOMAIN disk
    /\ disk[volumes_dict["12"].file_path].kind = "cbz"
    /\ Len(disk[volumes_dict["12"].file_path].entries) = 2
    /\ disk[volumes_dict["12"].file_path].entries[1].name = "001_12.jpg"
    /\ disk[volumes_dict["12"].file_path].entries[2].name = "002_12.jpg"

\* C20: an empty volume is never serialized. For both file types, the save
\* method called on a Volume without pages leaves the disk as it is: no
\* file is created and a file already at the path is not touched.
C20_EmptyNotSerialized ==
    [][(/\ op'.name = "save"
        /\ op'.v \in DOMAIN volumes_dict
        /\ volumes_dict[op'.v].pages = <<>>)
       => disk' = disk]_vars

C20_Witness ==
    /\ op.name = "save"
    /\ op.v \in DOMAIN volumes_dict
    /\ volumes_dict[op.v].pages = <<>>
    /\ VolumePath(MangaName, op.v, filetype) \in DOMAIN disk
    /\ disk[VolumePath(MangaName, op.v, filetype)].entries # <<>>

\* C21: Download end to end. After download_volumes of a Download(name,
\* filetype, parser) has returned, every id whose pages were all fetched has
\* a file at <root>/<name>/<name>_chapter_<id>.<filetype>, and the file is a
\* container of that filetype that holds the fetched pages.
C21_DownloadEndToEnd ==
    dl.pc = "returned" =>
        \A v \in DOMAIN dl.got :
            LET path == VolumePath(dl.manga_name, v, dl.type)
            IN /\ path \in DOMAIN disk
               /\ disk[path].kind = dl.type
               /\ [k \in DOMAIN disk[path].entries |-> disk[path].entries[k].img]
                    = [k \in DOMAIN dl.got[v] |-> dl.got[v][k][2]]

\* C22: shared resources across worker processes. Two processes assembling
\* at the same time share nothing but the files under the output directory:
\* no assembly fails because of the other one, and every archive entry a
\* process has stored holds the bytes of its own page.
C22_NoSharedResource ==
    \A p \in AsmProcs :
        asm[p].step # "idle" =>
            /\ asm[p].step # "raised"
            /\ \A k \in DOMAIN asm[p].entries :
                  asm[p].entries[k].img = asm[p].pages[k].img

\* C23: no in-memory state crosses the process boundary. While the workers
\* run, the Manga of the parent holds no volume; its volumes change only
\* when a new Manga is made or in the reconciliation step, after every task
\* has ended; and every Volume of the returned Manga has no pages.
C23_NoSharedMemory ==
    /\ [](opc = "pool" => volumes_dict = EmptyMap)
    /\ [](opc = "returned" =>
            \A v \in DOMAIN volumes_dict : volumes_dict[v].pages = <<>>)
    /\ [][volumes_dict' # volumes_dict =>
            \/ volumes_dict' = EmptyMap
            \/ /\ opc = "pool" /\ opc' # "pool"
               /\ nres = Len(tasks)
               /\ \A k \in DOMAIN tasks : tasks[k].st \in Terminal]_vars

C23_Witness ==
    /\ opc = "returned"
    /\ \E k \in DOMAIN tasks :
        /\ tasks[k].st = "done"
        /\ tasks[k].kept # <<>>
        /\ tasks[k].id \in DOMAIN volumes_dict
        /\ volumes_dict[tasks[k].id].pages = <<>>

\* C24: upstream error mapping of every manga parser. A call of
\* all_volume_numbers or of page_urls that the site answers with status 404
\* raises MangaDoesNotExist, and a call of all_volume_numbers that the site
\* answers with another error status raises that HTTP error.
C24_ErrorMapping ==
    \A k \in DOMAIN site :
        /\ site[k].answer.status = 404 => site[k].outcome = "MangaDoesNotExist"
        /\ (site[k].answer.status >= 400 /\ site[k].answer.status # 404
              /\ site[k].method = "all_volume_numbers")
           => site[k].outcome = "HTTPError"

\* the positions in manga.volumes of the chapters of bundle i
OwnChapters(i) ==
    {c \in 0..(bundles.n - 1) : c \div bundles.k = i}

\* C25: bundle freshness. create_volume rebuilds a bundle archive exactly
\* when the archive is missing or older than one of the chapter archives
\* the bundle contains; a bundle newer than all its own chapters is left
\* untouched, whatever the times of the chapters outside it.
C25_BundleFreshness ==
    bundles.pc # "idle" =>
        \A i \in DOMAIN bundles.tasks :
            bundles.tasks[i] \in {"kept", "rebuilt"} =>
                (bundles.tasks[i] = "rebuilt"
                   <=> \/ bundles.old[i] = Absent
                       \/ \E c \in OwnChapters(i) : bundles.old[i] < bundles.mt[c])

\* the positions of the events of a kind in the run of cli
EventsOf(e) == {i \in DOMAIN cli.events : cli.events[i].e = e}

StoredIndices ==
    IF CurPath \in DOMAIN disk
    THEN {disk[CurPath].entries[k].number : k \in DOMAIN disk[CurPath].entries}
    ELSE {}
LoggedMissing ==
    UNION {Range(e[3]) : e \in {x \in log : x[1] = "missing pages"}}
CatalogIndices == {urls[i][1] : i \in DOMAIN urls}

\* C27: index conservation. When a call has assembled its volume, the
\* indices stored in the container and the indices logged as missing are
\* disjoint and together are the indices the catalog returned; no entry of
\* any container has empty bytes.
C27_IndexConservation ==
    /\ (pc = "returned" /\ outcome \in {"done", "incomplete"}) =>
          /\ StoredIndices \cap LoggedMissing = {}
          /\ StoredIndices \cup LoggedMissing = CatalogIndices
    /\ \A path \in DOMAIN disk :
          \A k \in DOMAIN disk[path].entries :
              disk[path].entries[k].img # EmptyBytes

C27_Witness ==
    /\ pc = "returned"
    /\ outcome = "incomplete"
    /\ StoredIndices # {}
    /\ LoggedMissing # {}

\* C28: an incomplete container blocks re-acquisition. The container of a
\* volume with pages missing is written to the path a complete one would
\* have; a file once written is never changed; and every later call for
\* that id ends skipped without asking the catalog or fetching a page.
C28_IncompleteBlocks ==
    /\ []((pc = "returned" /\ outcome = "incomplete" /\ OkPages # {}) =>
            /\ CurPath \in DOMAIN disk
            /\ Len(disk[CurPath].entries) < catalog[cur].n)
    /\ [][/\ \A path \in DOMAIN disk :
                path \in DOMAIN disk' /\ disk'[path] = disk[path]
          /\ \A v \in Vols :
                (/\ pc = "idle" /\ pc' # "idle" /\ cur' = v
                 /\ VolumePath(MangaName, v, filetype) \in DOMAIN disk
                 /\ Len(disk[VolumePath(MangaName, v, filetype)].entries)
                      < catalog[v].n)
                => /\ outcome' = "skipped"
                   /\ catCalls' = 0
                   /\ fres' = <<>>
                   /\ nreq' = <<>>]_vars

C28_Witness ==
    /\ pc = "returned"
    /\ outcome = "skipped"
    /\ hist[cur] = "wrote"
    /\ Len(disk[CurPath].entries) < catalog[cur].n

\* the least number of bundles of k chapters that hold n chapters
BundlesNeeded(n, k) == CHOOSE m \in 0..n : m * k >= n /\ (m = 0 \/ (m - 1) * k < n)

\* the positions bundle i is to hold
BundleRange(i) ==
    {c \in 0..(bundles.n - 1) :
        i * bundles.k <= c /\ c <= i * bundles.k + bundles.k - 1}

\* C29: bundle partition. bundle() hands exactly ceil(n/k) bundle indices
\* to create_volume; a bundle that was built holds the chapters at the
\* positions i*k .. min(n-1, i*k+k-1) in that order, at most k of them and
\* fewer only in the last bundle; the ranges of the bundles are disjoint and
\* cover every chapter; and when bundle() returns every index was handled.
C29_BundlePartition ==
    bundles.pc # "idle" =>
        /\ DOMAIN bundles.tasks = 0..(BundlesNeeded(bundles.n, bundles.k) - 1)
        /\ \A i \in DOMAIN bundles.tasks :
              /\ bundles.tasks[i] = "rebuilt" =>
                    /\ Range(bundles.files[i].packed) = BundleRange(i)
                    /\ \A a, b \in DOMAIN bundles.files[i].packed :
                          a < b => bundles.files[i].packed[a]
                                     < bundles.files[i].packed[b]
              /\ Range(bundles.files[i].packed) \subseteq BundleRange(i)
              /\ Cardinality(BundleRange(i)) <= bundles.k
              /\ Cardinality(BundleRange(i)) < bundles.k =>
                    i = BundlesNeeded(bundles.n, bundles.k) - 1
              /\ BundleRange(i) # {}
        /\ \A c \in 0..(bundles.n - 1) :
              Cardinality({i \in DOMAIN bundles.tasks : c \in BundleRange(i)}) = 1
        /\ bundles.pc = "done" =>
              \A i \in DOMAIN bundles.tasks : bundles.tasks[i] \in {"kept", "rebuilt"}

C29_Witness ==
    /\ bundles.pc = "done"
    /\ bundles.n = 3 /\ bundles.k = 2
    /\ \A i \in DOMAIN bundles.tasks : bundles.tasks[i] = "rebuilt"
    /\ Len(bundles.files[1].packed) = 1

\* C30: returned volumes are materialized. When get_manga_volumes returns,
\* the file_path of every Volume of the returned Manga exists on disk.
C30_ReturnedMaterialized ==
    opc = "returned" =>
        \A v \in DOMAIN volumes_dict : volumes_dict[v].file_path \in DOMAIN disk

====
